---- MODULE Spec2Model ----
(***************************************************************************)
(* Model of @quave/migrations (src/migrations/package.json, which holds    *)
(* the text of migrations.ts and types.ts): the in-memory registry built   *)
(* by add(), the control document kept in the MongoDB collection, and the  *)
(* asynchronous calls migrateTo / getVersion / unlock / reset.  Every      *)
(* await on the database or on a user-supplied step is one atomic action;  *)
(* the synchronous code between two awaits belongs to the action of the    *)
(* await that precedes it.                                                 *)
(***************************************************************************)
EXTENDS Integers, Sequences, FiniteSets, TLC

\* ------------------------------------------------------------------ bounds
\* Versions offered to add() and to migrateTo() range over 0..MaxVersion
\* (add() is also offered one negative version).
MaxVersion == 2
\* add() is offered while the registry holds fewer than MaxMigrations entries.
MaxMigrations == 2
\* Calls (migrateTo, getVersion, unlock, reset) started in one behaviour.
MaxCalls == 2

\* The engine calls in flight: two concurrent callers of the same store.
Callers == {"a", "b"}

VARIABLES
    registry,   \* this.migrations: the sorted array of registered migrations
    addResult,  \* what the last add() did: its argument, outcome, registry before
    ctl,        \* the collection: NoDoc, or the document with _id 'control'
    now,        \* the clock that new Date() reads in lock()
    call,       \* per caller: the locals and the position of its async call
    result,     \* per caller: what its last call returned or threw
    calls,      \* number of calls started so far
    dbConnection \* whether setDatabase() has been called

vars == <<registry, addResult, ctl, now, call, result, calls, dbConnection>>

\* ---------------------------------------------------------------- registry
\* A Migration (types.ts): version, and whether up / down are functions.
Versions == 1..MaxVersion

Migration(v, u, d) == [version |-> v, up |-> u, down |-> d]

\* What a caller may hand to add(): any version in -1..MaxVersion, with or
\* without up and down.
Candidates == {Migration(v, u, d) : v \in -1..MaxVersion, u \in BOOLEAN, d \in BOOLEAN}

\* Array.prototype.sort((a, b) => a.version - b.version): a stable sort, as
\* an insertion sort that keeps equal versions in their order.
InsertSorted(s, m) ==
    LET k == Cardinality({i \in 1..Len(s) : s[i].version <= m.version})
    IN  SubSeq(s, 1, k) \o <<m>> \o SubSeq(s, k + 1, Len(s))

RECURSIVE SortByVersion(_)
SortByVersion(s) ==
    IF s = <<>> THEN <<>>
    ELSE InsertSorted(SortByVersion(SubSeq(s, 1, Len(s) - 1)), s[Len(s)])

\* add(): the checks of lines 94-104, in the code's order.
AddOutcome(m) ==
    IF ~m.up THEN "NoUp"
    ELSE IF m.version <= 0 THEN "BadVersion"
    ELSE "ok"

\* add(): push, then sort (lines 109-110); a rejected migration throws before.
AddedRegistry(reg, m) ==
    IF AddOutcome(m) = "ok" THEN SortByVersion(Append(reg, m)) ELSE reg

RECURSIVE AddAll(_, _)
\* The registry after add() of each element of ms in turn, from reg.
AddAll(reg, ms) ==
    IF ms = <<>> THEN reg ELSE AddAll(AddedRegistry(reg, Head(ms)), Tail(ms))

NoAdd == [arg |-> Migration(0, FALSE, FALSE), outcome |-> "none", before |-> <<>>]

\* ------------------------------------------------------- control document
NoDoc == [exists |-> FALSE, version |-> 0, locked |-> FALSE, lockedAt |-> 0]

Doc(v, l, t) == [exists |-> TRUE, version |-> v, locked |-> l, lockedAt |-> t]

Locked(doc) == doc.exists /\ doc.locked

\* findOne({_id: 'control'}) returns the document, if any.
\* updateOne({_id: 'control'}, {$set: {_id, version: 0, locked: false}},
\* {upsert: true}) of _setControl: $set leaves a field it does not name.
UpsertControl(doc) == Doc(0, FALSE, IF doc.exists THEN doc.lockedAt ELSE 0)

\* A lock() whose filter forgets locked: false.
LockModifiedAnyway(doc) == doc.exists

\* lock(): updateOne({_id: 'control', locked: false}, {$set: {locked: true,
\* lockedAt: new Date()}}); modifiedCount is 1 iff the filter matched.
LockModified(doc) == doc.exists /\ ~doc.locked

\* A lock() whose update stamps lockedAt on a document another caller locked.
LockUpdateRestamps(doc, t) ==
    IF doc.exists THEN [doc EXCEPT !.locked = TRUE, !.lockedAt = t] ELSE doc

LockUpdate(doc, t) ==
    IF LockModified(doc) THEN [doc EXCEPT !.locked = TRUE, !.lockedAt = t] ELSE doc

\* unlock(): updateOne({_id: 'control'}, {$set: {locked: false}}), no upsert.
UnlockUpdate(doc) == IF doc.exists THEN [doc EXCEPT !.locked = FALSE] ELSE doc

\* updateVersion(): updateOne({_id: 'control'}, {$set: {version}}), no upsert.
VersionUpdate(doc, v) == IF doc.exists THEN [doc EXCEPT !.version = v] ELSE doc

\* --------------------------------------------------------------- commands
\* A command of migrateTo: '' (or undefined), 'latest', or a version number,
\* with an optional subcommand after the comma.
Commands ==
    {[kind |-> "empty", n |-> 0, sub |-> "none"]}
    \cup {[kind |-> "latest", n |-> 0, sub |-> s] : s \in {"none", "rerun"}}
    \cup {[kind |-> "version", n |-> v, sub |-> s] : v \in 0..MaxVersion, s \in {"none", "rerun"}}

\* parseCommand(): the version part and the subcommand.
ParseCommand(cmd) == [latest |-> cmd.kind = "latest", version |-> cmd.n, subcommand |-> cmd.sub]

\* this.migrations[this.migrations.length - 1]?.version ?? 0
LatestVersion(reg) == IF reg = <<>> THEN 0 ELSE reg[Len(reg)].version

TargetVersion(reg, cmd) ==
    IF ParseCommand(cmd).latest THEN LatestVersion(reg) ELSE ParseCommand(cmd).version

\* ---------------------------------------------------------------- lookups
\* The code indexes this.migrations from 0; At(reg, idx) is migrations[idx].
InRange(reg, idx) == 0 <= idx /\ idx < Len(reg)

At(reg, idx) == reg[idx + 1]

HasVersion(reg, v) == \E j \in 1..Len(reg) : reg[j].version = v

\* findIndexByVersion(): -1 for version 0, else the first index holding the
\* version; it throws when there is none (CanFind is FALSE).
CanFind(reg, v) == v = 0 \/ HasVersion(reg, v)

FindIndexByVersion(reg, v) ==
    IF v = 0 THEN -1
    ELSE (CHOOSE j \in 1..Len(reg) :
            reg[j].version = v /\ \A h \in 1..(j - 1) : reg[h].version # v) - 1

\* ------------------------------------------------------------- call state
IdleCall ==
    [pc |-> "idle", op |-> "none", seq |-> 0, target |-> 0, rerun |-> FALSE,
     from |-> 0, cur |-> 0, run |-> 0, i |-> 0, end |-> 0, dir |-> "none",
     err |-> "none", acquired |-> FALSE, invoked |-> <<>>]

NoResult ==
    [kind |-> "none", success |-> FALSE, fromVersion |-> 0, toVersion |-> 0,
     migrationsRun |-> 0, error |-> "none", value |-> 0]

\* A MigrationResult (types.ts); error "none" stands for no error field.
MigrationResult(s, f, t, n, e) ==
    [kind |-> "result", success |-> s, fromVersion |-> f, toVersion |-> t,
     migrationsRun |-> n, error |-> e, value |-> 0]

Thrown(e) == [NoResult EXCEPT !.kind = "thrown", !.error = e]

VersionValue(v) == [NoResult EXCEPT !.kind = "version", !.value = v]

VoidValue == [NoResult EXCEPT !.kind = "void"]

\* ------------------------------------------------- _migrateTo, the try block
\* A loop that counts a step before awaiting it: the step that threw counts.
CatchCountsFailedStep(k, e) ==
    [k EXCEPT !.pc = "unlock", !.err = e,
              !.run = IF e = "StepThrew" THEN k.run + 1 ELSE k.run]

\* The catch clause (line 272): the run goes on to its unlock() with the error.
Catch(k, e) == [k EXCEPT !.pc = "unlock", !.err = e]

\* The end of the try block (line 263): the run goes on to its unlock().
Finish(k) == [k EXCEPT !.pc = "unlock"]

\* A runMigration without its two guards.
RunMigrationUnguarded(reg, k, dir, idx) == [k EXCEPT !.pc = "step", !.dir = dir, !.i = idx]

\* runMigration(direction, idx) up to its await: it throws when there is no
\* migration at idx or the migration has no function for the direction;
\* otherwise the step action is invoked next.
RunMigration(reg, k, dir, idx) ==
    IF ~InRange(reg, idx) THEN Catch(k, "IndexNotFound")
    ELSE IF dir = "down" /\ ~At(reg, idx).down THEN Catch(k, "CannotMigrate")
    ELSE IF dir = "up" /\ ~At(reg, idx).up THEN Catch(k, "CannotMigrate")
    ELSE [k EXCEPT !.pc = "step", !.dir = dir, !.i = idx]

\* The head of the up loop (line 241): for (i = ...; i <= endIdx; i++).
UpLoop(reg, k) ==
    IF k.i <= k.end THEN RunMigration(reg, k, "up", k.i) ELSE Finish(k)

\* The head of the down loop (line 253): for (i = ...; i > targetIdx; i--).
DownLoop(reg, k) ==
    IF k.i > k.end THEN RunMigration(reg, k, "down", k.i) ELSE Finish(k)

\* Lines 226-260 from the try to the first await: the rerun branch, or the
\* two lookups and the choice of the direction.
StartRun(reg, k) ==
    IF k.rerun
    THEN IF ~CanFind(reg, k.target) THEN Catch(k, "NotFound")
         ELSE RunMigration(reg, k, "up", FindIndexByVersion(reg, k.target))
    ELSE IF ~CanFind(reg, k.cur) \/ ~CanFind(reg, k.target) THEN Catch(k, "NotFound")
    ELSE IF k.cur < k.target
    THEN UpLoop(reg, [k EXCEPT !.i = FindIndexByVersion(reg, k.cur) + 1,
                               !.end = FindIndexByVersion(reg, k.target)])
    ELSE DownLoop(reg, [k EXCEPT !.i = FindIndexByVersion(reg, k.cur),
                                 !.end = FindIndexByVersion(reg, k.target)])

\* A rerun that persists the version it ran, like a step of the up loop.
AfterStepRerunPersists(reg, k) ==
    IF k.dir = "up"
    THEN [k EXCEPT !.pc = "persist", !.cur = At(reg, k.i).version]
    ELSE [k EXCEPT !.pc = "persist",
                   !.cur = IF InRange(reg, k.i - 1) THEN At(reg, k.i - 1).version ELSE 0]

\* A down loop that persists the version of the migration it reversed, as
\* the up loop does, in place of the version before it.
AfterStepPersistsOwnVersion(reg, k) ==
    IF k.rerun THEN Finish([k EXCEPT !.run = 1])
    ELSE [k EXCEPT !.pc = "persist", !.cur = At(reg, k.i).version]

\* A down loop that persists the reversed version minus one, in place of the
\* version of the migration before it.
AfterStepDecrements(reg, k) ==
    IF k.rerun THEN Finish([k EXCEPT !.run = 1])
    ELSE IF k.dir = "up"
    THEN [k EXCEPT !.pc = "persist", !.cur = At(reg, k.i).version]
    ELSE [k EXCEPT !.pc = "persist", !.cur = At(reg, k.i).version - 1]

\* After a step action returned (lines 230, 243-245, 255-256): the rerun
\* counts one and ends; a step of a loop sets currentVersion and goes on to
\* updateVersion().
AfterStep(reg, k) ==
    IF k.rerun THEN Finish([k EXCEPT !.run = 1])
    ELSE IF k.dir = "up"
    THEN [k EXCEPT !.pc = "persist", !.cur = At(reg, k.i).version]
    ELSE [k EXCEPT !.pc = "persist",
                   !.cur = IF InRange(reg, k.i - 1) THEN At(reg, k.i - 1).version ELSE 0]

\* After updateVersion() returned (lines 248-249, 258-259): migrationsRun++,
\* the loop's step and its next test.
AfterPersist(reg, k) ==
    IF k.dir = "up"
    THEN UpLoop(reg, [k EXCEPT !.run = k.run + 1, !.i = k.i + 1])
    ELSE DownLoop(reg, [k EXCEPT !.run = k.run + 1, !.i = k.i - 1])

\* A catch clause without its unlock().
NoUnlockAfterFailure(doc) == doc

\* The unlock() of the try block (line 263) and of the catch clause (line 273).
UnlockAfterSuccess(doc) == UnlockUpdate(doc)

UnlockAfterFailure(doc) == UnlockUpdate(doc)

\* The results _migrateTo returns (lines 207, 217, 266, 276).
FastPathResult(k) == MigrationResult(TRUE, k.cur, k.target, 0, "none")

LockedResult(k) == MigrationResult(FALSE, k.cur, k.target, 0, "Locked")

\* A catch clause that returns success: true.
FinalResultSucceeds(k) == MigrationResult(TRUE, k.from, k.target, k.run, k.err)

\* Results that report currentVersion, which the loops advance, as fromVersion.
FinalResultFromCurrent(k) == MigrationResult(k.err = "none", k.cur, k.target, k.run, k.err)

FinalResult(k) == MigrationResult(k.err = "none", k.from, k.target, k.run, k.err)

\* ---------------------------------------------------------------- actions
CanStart(c) == call[c].pc \in {"idle", "done"} /\ calls < MaxCalls

Started(op) == [IdleCall EXCEPT !.op = op, !.seq = calls + 1]

\* A call that returned keeps what it was asked, what it read at entry, whether
\* it acquired the lock, and the steps it invoked; its other locals are gone.
Returned(c, k, r) ==
    /\ call' = [call EXCEPT ![c] =
                  [IdleCall EXCEPT !.pc = "done", !.op = k.op, !.seq = k.seq,
                                   !.target = k.target, !.rerun = k.rerun,
                                   !.from = k.from, !.acquired = k.acquired,
                                   !.err = k.err, !.invoked = k.invoked]]
    /\ result' = [result EXCEPT ![c] = r]

Continue(c, k) ==
    /\ call' = [call EXCEPT ![c] = k]
    /\ result' = [result EXCEPT ![c] = NoResult]

\* setDatabase(db)
SetDatabase ==
    /\ ~dbConnection
    /\ dbConnection' = TRUE
    /\ UNCHANGED <<registry, addResult, ctl, now, call, result, calls>>

\* add(migration)
Add(m) ==
    /\ Len(registry) < MaxMigrations
    /\ \A c \in Callers : call[c].pc = "idle"
    /\ registry' = AddedRegistry(registry, m)
    /\ addResult' = [arg |-> m, outcome |-> AddOutcome(m), before |-> registry]
    /\ UNCHANGED <<ctl, now, call, result, calls, dbConnection>>

\* A migrateTo that validates its command only after _getControl().
MigrateToReadsFirst(c, cmd) ==
    /\ CanStart(c)
    /\ calls' = calls + 1
    /\ LET k == [Started("migrate") EXCEPT
                    !.target = TargetVersion(registry, cmd),
                    !.rerun = ParseCommand(cmd).subcommand = "rerun"]
       IN  IF ~dbConnection THEN Returned(c, Started("migrate"), Thrown("NotConfigured"))
           ELSE Continue(c, [k EXCEPT !.pc = "findOne"])
    /\ UNCHANGED <<registry, addResult, ctl, now, dbConnection>>

\* migrateTo(command) up to the first await, the findOne of _getControl.
MigrateTo(c, cmd) ==
    /\ CanStart(c)
    /\ calls' = calls + 1
    /\ LET k == [Started("migrate") EXCEPT
                    !.target = TargetVersion(registry, cmd),
                    !.rerun = ParseCommand(cmd).subcommand = "rerun"]
       IN  IF ~dbConnection THEN Returned(c, Started("migrate"), Thrown("NotConfigured"))
           ELSE IF cmd.kind = "empty" \/ Len(registry) = 0
           THEN Returned(c, Started("migrate"), Thrown("InvalidCommand"))
           ELSE Continue(c, [k EXCEPT !.pc = "findOne"])
    /\ UNCHANGED <<registry, addResult, ctl, now, dbConnection>>

\* getVersion() up to the findOne of _getControl.
GetVersion(c) ==
    /\ CanStart(c)
    /\ calls' = calls + 1
    /\ IF ~dbConnection THEN Returned(c, Started("getVersion"), Thrown("NotConfigured"))
       ELSE Continue(c, [Started("getVersion") EXCEPT !.pc = "findOne"])
    /\ UNCHANGED <<registry, addResult, ctl, now, dbConnection>>

\* reset() up to the findOne of its getVersion().
Reset(c) ==
    /\ CanStart(c)
    /\ calls' = calls + 1
    /\ IF ~dbConnection THEN Returned(c, Started("reset"), Thrown("NotConfigured"))
       ELSE Continue(c, [Started("reset") EXCEPT !.pc = "findOne"])
    /\ UNCHANGED <<registry, addResult, ctl, now, dbConnection>>

\* unlock() called by an operator: one update, then the call returns.
Unlock(c) ==
    /\ CanStart(c)
    /\ calls' = calls + 1
    /\ IF ~dbConnection
       THEN Returned(c, Started("unlock"), Thrown("NotConfigured")) /\ UNCHANGED ctl
       ELSE Returned(c, Started("unlock"), VoidValue) /\ ctl' = UnlockUpdate(ctl)
    /\ UNCHANGED <<registry, addResult, now, dbConnection>>

\* What follows _getControl() in its caller, with the version it returned:
\* getVersion returns it, reset goes on to deleteMany, _migrateTo takes the
\* fast path (line 203) or goes on to lock().
AfterGetControl(c, v) ==
    LET k == [call[c] EXCEPT !.from = v, !.cur = v]
    IN  IF k.op = "getVersion" THEN Returned(c, k, VersionValue(v))
        ELSE IF k.op = "reset" THEN Continue(c, [k EXCEPT !.pc = "deleteMany"])
        ELSE IF ~k.rerun /\ k.cur = k.target THEN Returned(c, k, FastPathResult(k))
        ELSE Continue(c, [k EXCEPT !.pc = "lock"])

\* _getControl(): the findOne; a document found is returned, else _setControl
\* is called and its upsert is the next await.
FindOne(c) ==
    /\ call[c].pc = "findOne"
    /\ IF ctl.exists THEN AfterGetControl(c, ctl.version)
       ELSE Continue(c, [call[c] EXCEPT !.pc = "setControl"])
    /\ UNCHANGED <<registry, addResult, ctl, now, calls, dbConnection>>

\* _setControl({version: 0, locked: false}): the upsert; it returns the
\* document it wrote, not what the collection holds.
SetControl(c) ==
    /\ call[c].pc = "setControl"
    /\ ctl' = UpsertControl(ctl)
    /\ AfterGetControl(c, 0)
    /\ UNCHANGED <<registry, addResult, now, calls, dbConnection>>

\* lock(): the conditional update; on success the try block runs to its
\* first await, on failure _migrateTo returns the locked result.
Lock(c) ==
    /\ call[c].pc = "lock"
    /\ ctl' = LockUpdate(ctl, now)
    /\ IF LockModified(ctl)
       THEN /\ now' = now + 1
            /\ Continue(c, StartRun(registry, [call[c] EXCEPT !.acquired = TRUE]))
       ELSE /\ now' = now
            /\ Returned(c, call[c], LockedResult(call[c]))
    /\ UNCHANGED <<registry, addResult, calls, dbConnection>>

\* await migration[direction](migration): the user's step action runs and
\* returns or throws.
Step(c) ==
    /\ call[c].pc = "step"
    /\ \E throws \in BOOLEAN :
         LET k == [call[c] EXCEPT !.invoked = Append(@, <<call[c].dir, call[c].i>>)]
         IN  Continue(c, IF throws THEN Catch(k, "StepThrew") ELSE AfterStep(registry, k))
    /\ UNCHANGED <<registry, addResult, ctl, now, calls, dbConnection>>

\* await this.updateVersion(currentVersion)
Persist(c) ==
    /\ call[c].pc = "persist"
    /\ ctl' = VersionUpdate(ctl, call[c].cur)
    /\ Continue(c, AfterPersist(registry, call[c]))
    /\ UNCHANGED <<registry, addResult, now, calls, dbConnection>>

\* await this.updateVersion(currentVersion) when the updateOne rejects: the
\* write is not made and the error is thrown inside the try block, where the
\* catch clause (line 272) receives it.
PersistFails(c) ==
    /\ call[c].pc = "persist"
    /\ Continue(c, Catch(call[c], "DbError"))
    /\ UNCHANGED <<registry, addResult, ctl, now, calls, dbConnection>>

\* await this.unlock() of _migrateTo, then the return of the result.
ReleaseLock(c) ==
    /\ call[c].pc = "unlock"
    /\ ctl' = IF call[c].err = "none" THEN UnlockAfterSuccess(ctl) ELSE UnlockAfterFailure(ctl)
    /\ Returned(c, call[c], FinalResult(call[c]))
    /\ UNCHANGED <<registry, addResult, now, calls, dbConnection>>

\* await collection.deleteMany({}) of reset()
DeleteMany(c) ==
    /\ call[c].pc = "deleteMany"
    /\ ctl' = NoDoc
    /\ Returned(c, call[c], VoidValue)
    /\ UNCHANGED <<registry, addResult, now, calls, dbConnection>>

\* --------------------------------------------------------- specifications
\* The migrations add() accepts, and the registries a sequence of at most
\* MaxMigrations add() calls can build from them.
Accepted == {m \in Candidates : AddOutcome(m) = "ok"}

Registries ==
    {s \in UNION {[1..n -> Accepted] : n \in 0..MaxMigrations} : AddAll(<<>>, s) = s}

\* The collection before a run: empty, or a control document left by earlier
\* runs (locked when a holder died without releasing).
Documents == {NoDoc} \cup {Doc(v, l, 0) : v \in 0..MaxVersion, l \in BOOLEAN}

InitCalls ==
    /\ addResult = NoAdd
    /\ now = 1
    /\ call = [c \in Callers |-> IdleCall]
    /\ result = [c \in Callers |-> NoResult]
    /\ calls = 0

\* After construction: nothing registered, no database, an empty collection.
SetupInit ==
    /\ registry = <<>>
    /\ ctl = NoDoc
    /\ dbConnection = FALSE
    /\ InitCalls

SetupNext == SetDatabase \/ \E m \in Candidates : Add(m)

\* Registration: add() and setDatabase() only.
SpecAdd == SetupInit /\ [][SetupNext]_vars

\* After registration: any registry add() can have built, any collection.
Init ==
    /\ registry \in Registries
    /\ ctl \in Documents
    /\ dbConnection \in BOOLEAN
    /\ InitCalls

\* The awaits of a call in flight.
Proceed(c) ==
    \/ FindOne(c)
    \/ SetControl(c)
    \/ Lock(c)
    \/ Step(c)
    \/ Persist(c)
    \/ ReleaseLock(c)
    \/ DeleteMany(c)

Next ==
    \E c \in Callers :
        \/ \E cmd \in Commands : MigrateTo(c, cmd)
        \/ GetVersion(c)
        \/ Unlock(c)
        \/ Reset(c)
        \/ Proceed(c)

\* Concurrent callers of one store, every operation.
Spec == Init /\ [][Next]_vars

\* With one call at a time the callers take turns: an engine keeps nothing
\* between two calls, so who makes the next call changes nothing.
NoCallInFlight == \A c \in Callers : call[c].pc \in {"idle", "done"}

Turn(c) == NoCallInFlight /\ c = (IF calls % 2 = 0 THEN "a" ELSE "b")

SeqNext ==
    \E c \in Callers :
        \/ Turn(c) /\ \E cmd \in Commands : MigrateTo(c, cmd)
        \/ Turn(c) /\ GetVersion(c)
        \/ Turn(c) /\ Unlock(c)
        \/ Turn(c) /\ Reset(c)
        \/ Proceed(c)

\* One call at a time: a call starts only when none is in flight.
SpecSeq == Init /\ [][SeqNext]_vars

\* One call at a time, against a database whose updateVersion write may fail.
DbNext == SeqNext \/ \E c \in Callers : PersistFails(c)

SpecDb == Init /\ [][DbNext]_vars

\* A collection that only engines with this registry have written: the
\* control document, if any, holds 0 or a registered version.
FixedInit == Init /\ (ctl.exists => CanFind(registry, ctl.version))

\* One call at a time, every operation, the registry fixed for good.
SpecFixed == FixedInit /\ [][SeqNext]_vars

\* The calls without the operator's unlock() and reset(): migrateTo only.
MigrateNext ==
    \E c \in Callers :
        \/ \E cmd \in Commands : MigrateTo(c, cmd)
        \/ FindOne(c)
        \/ SetControl(c)
        \/ Lock(c)
        \/ Step(c)
        \/ Persist(c)
        \/ ReleaseLock(c)

\* Concurrent migrateTo calls, from a collection no dead holder left locked.
NoAdminInit == Init /\ ~Locked(ctl)

SpecNoAdmin == NoAdminInit /\ [][MigrateNext]_vars

\* One call at a time, from a collection no holder, running or dead, has
\* locked.
SpecAlone == NoAdminInit /\ [][SeqNext]_vars

\* ================================================================= claims

\* ------------------------------------------------------------------- C5
NoDuplicateVersions(reg) ==
    \A i, j \in 1..Len(reg) : reg[i].version = reg[j].version => i = j

\* C5: add(migration) rejects a migration whose version is <= 0, whose
\* version is already registered, or that has no up action, and then leaves
\* the registry as it was; hence no registry holds a version twice.
C5_AddRejectsInvalid ==
    /\ (/\ addResult.outcome # "none"
        /\ \/ addResult.arg.version <= 0
           \/ ~addResult.arg.up
           \/ HasVersion(addResult.before, addResult.arg.version))
       => (addResult.outcome # "ok" /\ registry = addResult.before)
    /\ NoDuplicateVersions(registry)

\* ------------------------------------------------------------------ C10
StrictlyAscending(reg) ==
    \A i \in 1..(Len(reg) - 1) : reg[i].version < reg[i + 1].version

\* The sequences holding the elements of reg in any order.
Reorderings(reg) ==
    {[i \in 1..Len(reg) |-> reg[p[i]]] :
        p \in {q \in [1..Len(reg) -> 1..Len(reg)] :
                 \A i, j \in 1..Len(reg) : q[i] = q[j] => i = j}}

\* C10: after any sequence of successful add calls the registry is sorted
\* strictly ascending by version, and adding the same migrations in any
\* other order builds the same registry.
C10_SortedAnyOrder ==
    /\ StrictlyAscending(registry)
    /\ \A s \in Reorderings(registry) : AddAll(<<>>, s) = registry

\* ------------------------------------------------------- shared vocabulary
\* Between a successful lock() and the unlock() of the same call.
Holding(c) == call[c].pc \in {"step", "persist", "unlock"}

\* A migrateTo that returned a MigrationResult.
MigrateDone(c) ==
    call[c].pc = "done" /\ call[c].op = "migrate" /\ result[c].kind = "result"

\* The call of c is the last one started and has returned: the collection is
\* as that call left it.
LastDone(c) == call[c].pc = "done" /\ call[c].seq = calls

\* ------------------------------------------------------------------- C1
\* C1: with migrateTo calls only (no unlock(), no reset()), in any
\* interleaving and from any collection, the empty one included, at most one
\* caller is between its successful lock() and its release.
C1_MutualExclusion ==
    \A c, d \in Callers : (Holding(c) /\ Holding(d)) => c = d

\* ------------------------------------------------------------------- C2
\* C2: of two migrateTo('latest') calls that both found the persisted
\* version below the latest one, and in which no step threw, exactly one
\* returns success with migrationsRun > 0 and the other returns the locked
\* error with migrationsRun = 0.
C2_ExactlyOneSucceeds ==
    \A c, d \in Callers :
        (/\ c # d
         /\ MigrateDone(c) /\ MigrateDone(d)
         /\ ~call[c].rerun /\ ~call[d].rerun
         /\ call[c].target = LatestVersion(registry)
         /\ call[d].target = LatestVersion(registry)
         /\ CanFind(registry, call[c].from) /\ call[c].from < call[c].target
         /\ CanFind(registry, call[d].from) /\ call[d].from < call[d].target
         /\ result[c].error # "StepThrew" /\ result[d].error # "StepThrew")
        => \E w, l \in {c, d} :
              /\ w # l
              /\ result[w].success /\ result[w].migrationsRun > 0
              /\ ~result[l].success /\ result[l].error = "Locked"
              /\ result[l].migrationsRun = 0

\* ------------------------------------------------------------------- C3
\* The runtime resumes every call in flight: each await of a call completes.
FairSpec == Spec /\ \A c \in Callers : WF_vars(Proceed(c))

\* C3: a migrateTo that acquired the lock returns, whether its steps
\* succeeded or one threw, and at its return the control document is not
\* locked.
C3_LockReleased ==
    /\ \A c \in Callers : Holding(c) ~> (call[c].pc = "done")
    /\ [][\A c \in Callers :
            (Holding(c) /\ call'[c].pc = "done") => ~Locked(ctl')]_vars

C3_Witness ==
    \E c \in Callers :
        /\ MigrateDone(c) /\ call[c].acquired
        /\ result[c].error = "StepThrew" /\ Len(call[c].invoked) = 2
        /\ ctl.exists /\ ~ctl.locked

\* ------------------------------------------------------------------- C4
\* The up steps a forward run invokes from index first, n of them.
UpSteps(first, n) == [j \in 1..n |-> <<"up", first + j - 1>>]

\* The down steps a backward run invokes from index first, n of them.
DownSteps(first, n) == [j \in 1..n |-> <<"down", first - j + 1>>]

\* A forward run of c, made alone, whose last invoked step threw.
ForwardFailure(c) ==
    /\ LastDone(c) /\ MigrateDone(c)
    /\ ~call[c].rerun /\ call[c].acquired
    /\ call[c].from < call[c].target
    /\ result[c].error = "StepThrew"

\* C4: when the k-th step of a forward run throws, the steps invoked are the
\* first k up steps after the entry version and no later one, the result has
\* success = false and migrationsRun = k - 1, the persisted version is that
\* of the last completed step (the entry version when k = 1), and the lock
\* is free.
C4_ForwardFailure ==
    \A c \in Callers :
        ForwardFailure(c) =>
            LET k == Len(call[c].invoked)
                first == FindIndexByVersion(registry, call[c].from) + 1
            IN  /\ k >= 1
                /\ call[c].invoked = UpSteps(first, k)
                /\ ~result[c].success
                /\ result[c].migrationsRun = k - 1
                /\ ctl.exists /\ ~ctl.locked
                /\ ctl.version = IF k = 1 THEN call[c].from
                                 ELSE At(registry, first + k - 2).version

C4_Witness ==
    \E c \in Callers :
        /\ ForwardFailure(c)
        /\ Len(call[c].invoked) = 2
        /\ result[c].migrationsRun = 1
        /\ ctl.version # call[c].from

\* ------------------------------------------------------------------- C6
EveryDown(reg) == \A j \in 1..Len(reg) : reg[j].down

\* Caller c migrated to 'latest' from version 0 with the lock free and d then
\* migrated to 0, one call after the other, with no step throwing.
RoundTrip(c, d) ==
    /\ EveryDown(registry)
    /\ MigrateDone(c) /\ ~call[c].rerun /\ call[c].acquired
    /\ call[c].from = 0 /\ call[c].target = LatestVersion(registry)
    /\ LastDone(d) /\ MigrateDone(d) /\ ~call[d].rerun
    /\ call[d].seq = call[c].seq + 1 /\ call[d].target = 0
    /\ result[c].error # "StepThrew" /\ result[d].error # "StepThrew"

\* C6: in such a round trip the first call invokes the up of every
\* registered migration once, in ascending order, the second the down of
\* every one once, in the reverse order, both succeed, and the persisted
\* version ends at 0.
C6_RoundTrip ==
    \A c, d \in Callers :
        RoundTrip(c, d) =>
            /\ call[c].invoked = UpSteps(0, Len(registry))
            /\ call[d].invoked = DownSteps(Len(registry) - 1, Len(registry))
            /\ result[c].success /\ result[d].success
            /\ ctl.version = 0

\* ------------------------------------------------------------------- C7
\* The step in which the migrateTo of c returns by the fast path (line 207).
FastPathReturn(c) ==
    /\ call[c].pc \in {"findOne", "setControl"}
    /\ call[c].op = "migrate"
    /\ call'[c].pc = "done"

\* C7: a non-rerun migrateTo whose target is the version it observed at
\* entry returns success with migrationsRun = 0, having invoked no step and
\* attempted no lock, and its call leaves the version and the locked field
\* of the control document as they were, also while another caller holds
\* the lock.
C7_FastPath ==
    [][\A c \in Callers :
         FastPathReturn(c) =>
            /\ result'[c].success /\ result'[c].migrationsRun = 0
            /\ call'[c].invoked = <<>> /\ ~call'[c].acquired
            /\ ctl'.version = ctl.version
            /\ ctl'.locked = ctl.locked]_vars

\* ------------------------------------------------------------------- C8
\* A rerun of a registered version by c, made alone with the lock free,
\* whose up action returned.
RerunDone(c) ==
    /\ LastDone(c) /\ MigrateDone(c)
    /\ call[c].rerun /\ HasVersion(registry, call[c].target)
    /\ call[c].acquired
    /\ result[c].error # "StepThrew"

\* C8: such a rerun invokes the up action of the version once and no other
\* step, leaves the persisted version as it was at entry, returns success
\* with migrationsRun = 1, and leaves the lock free.
C8_Rerun ==
    \A c \in Callers :
        RerunDone(c) =>
            /\ call[c].invoked = <<<<"up", FindIndexByVersion(registry, call[c].target)>>>>
            /\ At(registry, call[c].invoked[1][2]).version = call[c].target
            /\ ctl.exists /\ ctl.version = call[c].from
            /\ result[c].success /\ result[c].migrationsRun = 1
            /\ ~ctl.locked

C8_Witness ==
    \E c \in Callers :
        /\ RerunDone(c)
        /\ call[c].from # call[c].target /\ call[c].from # 0
        /\ ctl.version = call[c].from

\* ------------------------------------------------------------------- C9
\* The control document is locked and no run is active: the holder is gone.
StaleLock == Locked(ctl) /\ \A c \in Callers : ~Holding(c)

\* The step is the lock() of a migrateTo of c.
LockAttempt(c) == call[c].pc = "lock" /\ call'[c].pc # "lock"

\* The step is a call of unlock() that reached the database.
UnlockCalled ==
    \E c \in Callers :
        /\ calls' = calls + 1 /\ call'[c].seq = calls'
        /\ call'[c].op = "unlock" /\ result'[c].kind = "void"

\* The step is the deleteMany of a reset().
ResetDeleted ==
    \E c \in Callers : call[c].pc = "deleteMany" /\ call'[c].pc = "done"

\* A migrateTo of d that needed the lock (it did not return by the fast
\* path) follows an unlock() of c.
MigrateAfterUnlock(c, d) ==
    /\ call[c].pc = "done" /\ call[c].op = "unlock" /\ result[c].kind = "void"
    /\ call[d].seq = call[c].seq + 1
    /\ MigrateDone(d)
    /\ (call[d].rerun \/ call[d].from # call[d].target)

\* What C9 says of lock(), of unlock() and of the call after unlock().
RecoveryByUnlock ==
    /\ [](\A c, d \in Callers : MigrateAfterUnlock(c, d) => call[d].acquired)
    /\ [][/\ \A c \in Callers :
               (StaleLock /\ LockAttempt(c)) =>
                   /\ call'[c].pc = "done" /\ ~call'[c].acquired
                   /\ ~result'[c].success /\ result'[c].error = "Locked"
                   /\ ctl' = ctl
          /\ UnlockCalled =>
               /\ ~Locked(ctl')
               /\ ctl'.exists = ctl.exists /\ ctl'.version = ctl.version
               /\ ctl'.lockedAt = ctl.lockedAt]_vars

\* C9: with the control document locked and no run active, every migrateTo
\* that needs the lock fails with the locked error until unlock() is called,
\* and the migrateTo after unlock() acquires the lock; unlock() changes only
\* the locked field.
C9_UntilUnlock ==
    /\ RecoveryByUnlock
    /\ [][(StaleLock /\ ~Locked(ctl')) => UnlockCalled]_vars

\* C9 as amended: reset() ends the locked state as well.
C9_UntilUnlockOrReset ==
    /\ RecoveryByUnlock
    /\ [][(StaleLock /\ ~Locked(ctl')) => (UnlockCalled \/ ResetDeleted)]_vars

C9_Witness ==
    \E c, d \in Callers :
        /\ MigrateDone(c) /\ result[c].error = "Locked"
        /\ call[d].pc = "done" /\ call[d].op = "unlock" /\ result[d].kind = "void"
        /\ call[d].seq = call[c].seq + 1
        /\ ctl.exists /\ ~ctl.locked

\* ------------------------------------------------------------------ C11
\* The lock() of c finds the control document locked.
LockRefused(c) == LockAttempt(c) /\ Locked(ctl)

\* C11: when lock() fails because the control document is locked, migrateTo
\* returns at once (no second attempt) with success = false, the error
\* 'Migration control is locked' and migrationsRun = 0, having invoked no
\* step, and the control document (version, locked, lockedAt) is as it was:
\* the other caller's lock stays.
C11_LockFailure ==
    [][\A c \in Callers :
         LockRefused(c) =>
            /\ call'[c].pc = "done" /\ ~call'[c].acquired
            /\ result'[c] = MigrationResult(FALSE, call[c].from, call[c].target, 0, "Locked")
            /\ call'[c].invoked = <<>>
            /\ ctl' = ctl]_vars

C11_Witness ==
    \E c, d \in Callers :
        /\ c # d
        /\ MigrateDone(c) /\ result[c].error = "Locked" /\ ~call[c].acquired
        /\ Holding(d) /\ Locked(ctl)

\* ------------------------------------------------------------------ C12
\* The step is the start of a migrateTo of c.
MigrateStarts(c) ==
    calls' = calls + 1 /\ call'[c].seq = calls' /\ call'[c].op = "migrate"

EmptyCommand == [kind |-> "empty", n |-> 0, sub |-> "none"]

\* The call of c threw e in the step that started it and the collection is
\* as it was.
RejectedAtOnce(c, e) ==
    /\ call'[c].pc = "done" /\ result'[c] = Thrown(e)
    /\ ~call'[c].acquired /\ call'[c].invoked = <<>>
    /\ ctl' = ctl

\* C12: migrateTo without a database throws the not-configured error; with a
\* database, migrateTo of an empty command, or against an empty registry,
\* throws the invalid-command error; each is thrown before any read or write
\* of the collection, which stays as it was (absent included), and no lock()
\* is attempted.
C12_PreRunRejections ==
    [][\A c \in Callers :
         /\ (MigrateStarts(c) /\ ~dbConnection) => RejectedAtOnce(c, "NotConfigured")
         /\ (MigrateStarts(c) /\ dbConnection /\ registry = <<>>)
                => RejectedAtOnce(c, "InvalidCommand")
         /\ (MigrateTo(c, EmptyCommand) /\ dbConnection)
                => RejectedAtOnce(c, "InvalidCommand")]_vars

C12_Witness ==
    \E c \in Callers :
        /\ call[c].pc = "done" /\ call[c].op = "migrate"
        /\ result[c] = Thrown("InvalidCommand")
        /\ dbConnection /\ registry # <<>> /\ ctl = NoDoc

\* ------------------------------------------------------------------ C13
\* The resolved target of c is not 0 and no migration holds it, or c is a
\* rerun of version 0.
Unresolvable(c) ==
    \/ call[c].target # 0 /\ ~HasVersion(registry, call[c].target)
    \/ call[c].rerun /\ call[c].target = 0

\* The call of c did not take the fast path (line 203).
PastFastPath(c) == call[c].rerun \/ call[c].from # call[c].target

\* The migrateTo of c, made alone, failed without a trace: no step invoked,
\* the persisted version as read at entry, the lock not left held by it.
FailedCleanly(c) ==
    /\ result[c].kind = "result" /\ ~result[c].success
    /\ call[c].invoked = <<>>
    /\ ctl.exists /\ ctl.version = call[c].from
    /\ call[c].acquired => ~ctl.locked

\* C13: a migrateTo (rerun or not) whose resolved target is non-zero and
\* matches no registered migration, and a rerun whose target is 0, fails:
\* no step is invoked, the persisted version is unchanged and the lock is
\* not held when the call ends.
C13_NotFound ==
    \A c \in Callers :
        (LastDone(c) /\ call[c].op = "migrate" /\ Unresolvable(c)) => FailedCleanly(c)

\* C13 as amended: of the calls that did not return by the fast path.
C13_NotFoundPastFastPath ==
    \A c \in Callers :
        (LastDone(c) /\ call[c].op = "migrate" /\ Unresolvable(c) /\ PastFastPath(c))
            => FailedCleanly(c)

C13_Witness ==
    \E c \in Callers :
        /\ LastDone(c) /\ MigrateDone(c) /\ Unresolvable(c)
        /\ call[c].acquired /\ result[c].error = "NotFound"
        /\ call[c].target # 0 /\ call[c].from # 0

\* ------------------------------------------------------------------ C14
\* A backward run of c, made alone, that met a migration without a down.
BackwardStopped(c) ==
    /\ LastDone(c) /\ MigrateDone(c)
    /\ ~call[c].rerun /\ call[c].acquired
    /\ call[c].from > call[c].target
    /\ result[c].error = "CannotMigrate"

\* C14: a backward run that meets a migration without a down action has
\* invoked the down of every migration from the one at the entry version to
\* the one above it, in descending order, and nothing else; the migration
\* without down is above the target; the result has success = false and
\* migrationsRun = the number of downs completed; the persisted version is
\* that of the migration without down, and the lock is free.
C14_NoDown ==
    \A c \in Callers :
        BackwardStopped(c) =>
            LET k == Len(call[c].invoked)
                start == FindIndexByVersion(registry, call[c].from)
            IN  /\ call[c].invoked = DownSteps(start, k)
                /\ InRange(registry, start - k)
                /\ ~At(registry, start - k).down
                /\ start - k > FindIndexByVersion(registry, call[c].target)
                /\ ~result[c].success
                /\ result[c].migrationsRun = k
                /\ ctl.exists /\ ~ctl.locked
                /\ ctl.version = At(registry, start - k).version

C14_Witness ==
    \E c \in Callers :
        /\ BackwardStopped(c)
        /\ Len(call[c].invoked) >= 1
        /\ result[c].migrationsRun = Len(call[c].invoked)
        /\ ctl.version # call[c].from

\* ------------------------------------------------------------------ C15
\* A migrateTo of c, made alone, whose updateVersion write failed.
PersistFailed(c) ==
    LastDone(c) /\ call[c].op = "migrate" /\ call[c].err = "DbError"

\* C15: when the write of updateVersion fails in the apply phase, migrateTo
\* throws that database error to its caller, it does not return a failed
\* result, and the lock has been released.
C15_DbErrorPropagates ==
    \A c \in Callers :
        PersistFailed(c) => (result[c] = Thrown("DbError") /\ ~Locked(ctl))

\* ------------------------------------------------------------------ C16
\* The reset() of c returned.
ResetReturned(c) ==
    call[c].pc = "done" /\ call[c].op = "reset" /\ result[c].kind = "void"

\* The getVersion() of c returned 0.
ReturnedZero(c) ==
    call[c].pc = "done" /\ call[c].op = "getVersion" /\ result[c] = VersionValue(0)

\* The migrateTo('latest') of d, made alone right after the call of c, got
\* the lock and no step of it threw.
LatestAfter(c, d) ==
    /\ LastDone(d) /\ MigrateDone(d)
    /\ call[d].seq = call[c].seq + 1
    /\ ~call[d].rerun /\ call[d].target = LatestVersion(registry)
    /\ call[d].acquired /\ result[d].error # "StepThrew"

\* C16: reset() deletes the control document and leaves the registry as it
\* was; with one call at a time, a getVersion() right after reset() returns
\* 0 and leaves a control document with version 0 and locked = false; and a
\* migrateTo('latest') that follows, after that getVersion() or right after
\* reset(), invokes the up of every registered migration, from the first.
C16_Reset ==
    /\ [](\A c, d \in Callers :
            /\ (LastDone(c) /\ ResetReturned(c)) => ctl = NoDoc
            /\ (ResetReturned(c) /\ LastDone(d) /\ call[d].seq = call[c].seq + 1
                   /\ call[d].op = "getVersion")
                  => (result[d] = VersionValue(0) /\ ctl = Doc(0, FALSE, 0))
            /\ ((ResetReturned(c) \/ ReturnedZero(c)) /\ LatestAfter(c, d))
                  => (/\ call[d].from = 0
                      /\ call[d].invoked = UpSteps(0, Len(registry))
                      /\ result[d].success))
    /\ [][ResetDeleted => (ctl' = NoDoc /\ registry' = registry)]_vars

\* ------------------------------------------------------------------ C17
\* C17: every result migrateTo returns carries an error iff its success is
\* false, has migrationsRun >= 0, and has toVersion equal to the resolved
\* target version.
C17_ResultShape ==
    \A c \in Callers :
        MigrateDone(c) =>
            /\ (result[c].error # "none") <=> ~result[c].success
            /\ result[c].migrationsRun >= 0
            /\ result[c].toVersion = call[c].target

C17_Witness ==
    \E c, d \in Callers :
        /\ MigrateDone(c) /\ ~result[c].success
        /\ result[c].error = "StepThrew" /\ result[c].migrationsRun = 1
        /\ MigrateDone(d) /\ result[d].success /\ result[d].error = "none"
        /\ result[d].migrationsRun = 2 /\ result[d].toVersion = 2

\* ---------------------------------------------------- C18, C19: traversal
\* The indices of the registered migrations with version in (lo, hi].
Between(reg, lo, hi) ==
    {j \in 0..(Len(reg) - 1) : lo < At(reg, j).version /\ At(reg, j).version <= hi}

\* The elements of a set of indices in ascending, in descending order.
Ascending(S) ==
    CHOOSE f \in [1..Cardinality(S) -> S] :
        \A i, j \in 1..Cardinality(S) : i < j => f[i] < f[j]

Descending(S) ==
    CHOOSE f \in [1..Cardinality(S) -> S] :
        \A i, j \in 1..Cardinality(S) : i < j => f[i] > f[j]

\* The steps invoked by c are the first ones of: dir of each index of idxs.
InvokedPrefix(c, dir, idxs) ==
    /\ Len(call[c].invoked) <= Len(idxs)
    /\ \A j \in 1..Len(call[c].invoked) : call[c].invoked[j] = <<dir, idxs[j]>>

\* The version persisted once the step at index idx has completed.
VersionAfter(reg, dir, idx) ==
    IF dir = "up" THEN At(reg, idx).version
    ELSE IF InRange(reg, idx - 1) THEN At(reg, idx - 1).version ELSE 0

\* The version persisted by the last step c completed, when c is about to
\* invoke its next step: the version read at entry when there is none.
LastCompleted(c) ==
    IF call[c].invoked = <<>> THEN call[c].from
    ELSE VersionAfter(registry, call[c].invoked[Len(call[c].invoked)][1],
                      call[c].invoked[Len(call[c].invoked)][2])

\* The current call is a migrateTo of c that entered a loop of the try block
\* (lines 239-260): it holds or held the lock and both lookups succeeded.
Traversal(c) ==
    /\ call[c].op = "migrate" /\ call[c].seq = calls
    /\ ~call[c].rerun /\ call[c].acquired
    /\ CanFind(registry, call[c].from) /\ CanFind(registry, call[c].target)

\* ------------------------------------------------------------------ C18
\* C18: a forward run (version at entry < target) invokes up for the
\* registered migrations with version in (entry, target], in ascending
\* order, none skipped (all of them when no step fails), and whenever it is
\* about to invoke the next up the persisted version is that of the last
\* completed step.
C18_ForwardTraversal ==
    \A c \in Callers :
        (Traversal(c) /\ call[c].from < call[c].target) =>
            LET ups == Ascending(Between(registry, call[c].from, call[c].target))
            IN  /\ InvokedPrefix(c, "up", ups)
                /\ (call[c].pc = "done" /\ result[c].success)
                       => Len(call[c].invoked) = Len(ups)
                /\ call[c].pc = "step"
                       => (ctl.exists /\ ctl.version = LastCompleted(c))

\* ------------------------------------------------------------------ C19
\* C19: a backward run (version at entry > target) invokes down for the
\* registered migrations with version in (target, entry], in descending
\* order (all of them when no step fails), never for the migration at the
\* target version, and whenever it is about to invoke the next down the
\* persisted version is that of the migration before the last one reversed,
\* or 0 when there is none.
C19_BackwardTraversal ==
    \A c \in Callers :
        (Traversal(c) /\ call[c].from > call[c].target) =>
            LET downs == Descending(Between(registry, call[c].target, call[c].from))
            IN  /\ InvokedPrefix(c, "down", downs)
                /\ (call[c].pc = "done" /\ result[c].success)
                       => Len(call[c].invoked) = Len(downs)
                /\ \A j \in 1..Len(call[c].invoked) :
                       At(registry, call[c].invoked[j][2]).version # call[c].target
                /\ call[c].pc = "step"
                       => (ctl.exists /\ ctl.version = LastCompleted(c))

\* ------------------------------------------------------------------ C20
\* The version persisted by the steps c completed before the step that threw.
PersistedBeforeFailure(c) ==
    LET k == Len(call[c].invoked)
    IN  IF call[c].rerun \/ k <= 1 THEN call[c].from
        ELSE VersionAfter(registry, call[c].invoked[k - 1][1], call[c].invoked[k - 1][2])

\* The call of d is the last one and directly follows the call of c.
Follows(c, d) == LastDone(d) /\ call[c].pc = "done" /\ call[d].seq = call[c].seq + 1

\* C20: with one call at a time, a result of a migrateTo that got past the
\* fast path (success, step failure or lock failure) has fromVersion equal
\* to the persisted version at entry, the one a getVersion() just before
\* returned; and after a step failure getVersion() returns the version
\* persisted by the last completed step, whatever fromVersion is.
C20_FromVersion ==
    \A c, d \in Callers :
        /\ (MigrateDone(c) /\ PastFastPath(c)) => result[c].fromVersion = call[c].from
        /\ (Follows(c, d) /\ result[c].kind = "version"
               /\ MigrateDone(d) /\ PastFastPath(d))
              => result[d].fromVersion = result[c].value
        /\ (Follows(c, d) /\ MigrateDone(c) /\ result[c].error = "StepThrew"
               /\ result[d].kind = "version")
              => result[d].value = PersistedBeforeFailure(c)

C20_Witness ==
    \E c, d \in Callers :
        /\ Follows(c, d) /\ MigrateDone(c) /\ result[c].error = "StepThrew"
        /\ result[d].kind = "version"
        /\ result[d].value # result[c].fromVersion
        /\ result[c].migrationsRun = 1

\* ------------------------------------------------------------------ C21
\* The step is made by a call of c.
StepOf(c) == call'[c] # call[c]

\* The step belongs to an unlock() or to a reset(), the operator's calls.
AdminStep ==
    \/ UnlockCalled
    \/ \E c \in Callers : call[c].op = "reset" /\ StepOf(c)

\* The step is the persist or the release of a caller that holds the lock.
HolderStep == \E c \in Callers : Holding(c) /\ StepOf(c)

\* The step is a lock() that acquired the lock.
Acquisition == \E c \in Callers : LockAttempt(c) /\ call'[c].acquired

\* C21: unlock() and reset() apart, a step that changes the version or the
\* locked field of an existing control document is the persist or the
\* release of a caller that holds the lock, or a successful lock(); no
\* migrateTo or getVersion of a caller that does not hold the lock changes
\* them, in any interleaving.
C21_OnlyHolderWrites ==
    [][(ctl.exists /\ (ctl'.version # ctl.version \/ ctl'.locked # ctl.locked))
          => (AdminStep \/ HolderStep \/ Acquisition)]_vars

\* ------------------------------------------------------------------ C22
\* The step is the invocation of a step action by c.
Invokes(c) == call[c].pc = "step" /\ call'[c].invoked # call[c].invoked

\* C22: with concurrent non-rerun migrateTo calls only, the up of a
\* migration is invoked only while the persisted version is that of the
\* registered migration before it (0 for the first), and the down of a
\* migration only while the persisted version is its own version.
C22_LinearLedger ==
    [][\A c \in Callers :
         (Invokes(c) /\ \A d \in Callers : ~call[d].rerun) =>
            /\ ctl.exists
            /\ ctl.version = IF call[c].dir = "up"
                             THEN VersionAfter(registry, "down", call[c].i)
                             ELSE At(registry, call[c].i).version]_vars

\* ------------------------------------------------------------------ C23
\* C23: with a fixed registry, after any sequence of migrateTo (rerun and
\* failing runs included), getVersion, unlock and reset calls, the persisted
\* version of the control document, when it exists, is 0 or the version of a
\* registered migration.
C23_VersionValid == ctl.exists => CanFind(registry, ctl.version)

C23_Witness ==
    \E c \in Callers :
        /\ LastDone(c) /\ MigrateDone(c) /\ result[c].success
        /\ call[c].invoked = <<<<"down", 0>>>>
        /\ At(registry, 0).version = 2
        /\ ctl.exists /\ ctl.version = 0

\* ------------------------------------------------------------------ C24
\* A non-rerun migrateTo of c, made alone, returned success.
SuccessAlone(c) ==
    LastDone(c) /\ MigrateDone(c) /\ ~call[c].rerun /\ result[c].success

Lower(a, b) == IF a < b THEN a ELSE b

Higher(a, b) == IF a < b THEN b ELSE a

\* C24: when a non-rerun migrateTo with no concurrent caller returns
\* success, the persisted version is toVersion, the lock is free, and
\* migrationsRun is the number of registered migrations with version above
\* the lower and up to the higher of fromVersion and toVersion.
C24_SuccessPostcondition ==
    \A c \in Callers :
        SuccessAlone(c) =>
            /\ ctl.exists /\ ctl.version = result[c].toVersion
            /\ ~ctl.locked
            /\ result[c].migrationsRun =
                 Cardinality(Between(registry,
                                     Lower(result[c].fromVersion, result[c].toVersion),
                                     Higher(result[c].fromVersion, result[c].toVersion)))

====
